---- MODULE Spec2Model ----
(***************************************************************************)
(* Model of xyz_remove_CO.py: a batch tool that reads every *.xyz file of  *)
(* a folder, finds the centre metal and the M-CO ligands by distance, and  *)
(* writes <name>_d.xyz with the first two detected CO pairs removed.       *)
(*                                                                         *)
(* Representation.                                                         *)
(*  - A file is a sequence of lines; a line is a record [k, n, e, p] whose *)
(*    kind k says how the reader's tests see it: "int" (int() accepts it,  *)
(*    value n), "blank" (strip() is empty), "text" (non-blank, fewer than  *)
(*    four tokens, not an integer), "badnum" (four tokens, float() rejects *)
(*    one), "atom" (element e and three numbers p).                        *)
(*  - A coordinate is <<c, s>> and stands for c*10^-2 + s*10^-7 Angstrom:  *)
(*    c carries the geometry, s digits below the six decimals write_xyz    *)
(*    keeps.  Distances are exact (real arithmetic, not IEEE doubles).     *)
(*  - Atom indices are 0-based as in the source; At(s, i) reads s[i].      *)
(*  - A file name is [base, nd, ext] and stands for base ++ "_d"*nd ++ ext.*)
(***************************************************************************)
EXTENDS Integers, Sequences, FiniteSets, TLC

VARIABLES fs, fs0, unreadable, unwritable, pc, todo, log, last

vars == <<fs, fs0, unreadable, unwritable, pc, todo, log, last>>

(* ----- configuration constants (source lines 4-14) ----- *)
OUTPUT_SUFFIX == 1
CENTER_METALS == {"Ir", "Rh", "Pd", "Pt", "Ni", "Co", "Fe", "Ru", "Os"}
CO_BOND_MIN == 100
CO_BOND_MAX == 130
M_C_MAX == 220

(* ----- bounds of the model ----- *)
MaxAtoms == 5
MaxLines == 4
MaxFiles == 2

None == -1

\* A coordinate gap of Huge or more stands for one whose square leaves the range
\* of a double: "** 2" in distance then raises OverflowError instead of returning.
Huge == 20000
Origin == <<(<<0, 0>>), (<<0, 0>>), (<<0, 0>>)>>

At(s, i) == s[i + 1]

(* ----- Python list slicing, as used by read_xyz and process_xyz_file ----- *)
PyIndex(i, len) ==
    IF i < 0 THEN (IF i + len < 0 THEN 0 ELSE i + len)
    ELSE IF i > len THEN len ELSE i

PySlice(s, a, b) ==
    LET lo == PyIndex(a, Len(s))
        hi == PyIndex(b, Len(s))
    IN  IF hi <= lo THEN <<>> ELSE SubSeq(s, lo + 1, hi)

PySliceFrom(s, a) ==
    LET lo == PyIndex(a, Len(s))
    IN  IF Len(s) <= lo THEN <<>> ELSE SubSeq(s, lo + 1, Len(s))

(* ----- lines ----- *)
IntLine(n) == [k |-> "int", n |-> n, e |-> "", p |-> Origin]
BlankLine == [k |-> "blank", n |-> 0, e |-> "", p |-> Origin]
TextLine == [k |-> "text", n |-> 0, e |-> "title", p |-> Origin]
BadNumLine == [k |-> "badnum", n |-> 0, e |-> "C", p |-> Origin]
AtomLine(e, p) == [k |-> "atom", n |-> 0, e |-> e, p |-> p]

(* ----- distance: the exact squared distance <<A, S1, S2>>, standing for  *)
(* A*U^2 + 2*U*S1 + S2 with U = 10^5 sub-units per unit of c.  sqrt is     *)
(* monotone, so the source's comparisons of sqrt(...) with a threshold are *)
(* comparisons of the squares.                                             *)
Sq(x) == x * x

distance(a, b) ==
    << Sq(a[1][1] - b[1][1]) + Sq(a[2][1] - b[2][1]) + Sq(a[3][1] - b[3][1]),
       (a[1][1] - b[1][1]) * (a[1][2] - b[1][2])
         + (a[2][1] - b[2][1]) * (a[2][2] - b[2][2])
         + (a[3][1] - b[3][1]) * (a[3][2] - b[3][2]),
       Sq(a[1][2] - b[1][2]) + Sq(a[2][2] - b[2][2]) + Sq(a[3][2] - b[3][2]) >>

\* lines 17-21: (a[k] - b[k]) ** 2 raises OverflowError
distance_raises(a, b) ==
    \E k \in 1..3 : a[k][1] - b[k][1] >= Huge \/ b[k][1] - a[k][1] >= Huge

\* d <= t, for a threshold t in units of c (|2*U*S1 + S2| < U^2 in the model)
DistLE(d, t) ==
    \/ d[1] < Sq(t)
    \/ d[1] = Sq(t) /\ (d[2] < 0 \/ (d[2] = 0 /\ d[3] = 0))

\* t <= d
DistGE(d, t) ==
    \/ d[1] > Sq(t)
    \/ d[1] = Sq(t) /\ d[2] >= 0

(* ----- read_xyz ----- *)
ReadFail ==
    [ok |-> FALSE, elements |-> <<>>, coords |-> <<>>, comment |-> BlankLine,
     extra_lines |-> <<>>, n_atoms |-> 0]

RECURSIVE ParseAtoms(_)
\* the loop of lines 41-52: [ok, elements, coords]
ParseAtoms(atom_lines) ==
    IF atom_lines = <<>> THEN [ok |-> TRUE, elements |-> <<>>, coords |-> <<>>]
    ELSE LET line == Head(atom_lines)
             rest == ParseAtoms(Tail(atom_lines))
         IN  IF line.k = "blank" THEN rest
             ELSE IF line.k # "atom" THEN [ok |-> FALSE, elements |-> <<>>, coords |-> <<>>]
             ELSE IF ~rest.ok THEN rest
             ELSE [ok |-> TRUE,
                   elements |-> <<line.e>> \o rest.elements,
                   coords |-> <<line.p>> \o rest.coords]

read_xyz(lines) ==
    IF Len(lines) < 2 THEN ReadFail
    ELSE IF lines[1].k # "int" THEN ReadFail
    ELSE LET n_atoms == lines[1].n
             atom_lines == PySlice(lines, 2, 2 + n_atoms)
             parsed == ParseAtoms(atom_lines)
         IN  IF Len(atom_lines) < n_atoms THEN ReadFail
             ELSE IF ~parsed.ok THEN ReadFail
             ELSE [ok |-> TRUE, elements |-> parsed.elements, coords |-> parsed.coords,
                   comment |-> lines[2], extra_lines |-> PySliceFrom(lines, 2 + n_atoms),
                   n_atoms |-> n_atoms]

(* ----- write_xyz ----- *)
\* "{x:12.6f}": the value rounded to six decimals (s is never a tie)
Format6(x) == <<x[1], 10 * ((x[2] + 5) \div 10)>>

FormatAtom(elem, coord) ==
    AtomLine(elem, <<Format6(coord[1]), Format6(coord[2]), Format6(coord[3])>>)

\* zip(elements, coords) stops at the shorter of the two
ZipLen(elements, coords) ==
    IF Len(elements) < Len(coords) THEN Len(elements) ELSE Len(coords)

write_xyz(elements, coords, comment, extra_lines) ==
    <<IntLine(Len(elements)), comment>>
      \o [i \in 1..ZipLen(elements, coords) |-> FormatAtom(elements[i], coords[i])]
      \o extra_lines

(* ----- find_metal_center ----- *)
RECURSIVE MetalFrom(_, _)
MetalFrom(elements, i) ==
    IF i >= Len(elements) THEN None
    ELSE IF At(elements, i) \in CENTER_METALS THEN i
    ELSE MetalFrom(elements, i + 1)

find_metal_center(elements) == MetalFrom(elements, 0)

(* ----- find_CO_pairs ----- *)
\* line 91, with "<" where the source has "<="
CO_in_range_strict(d_co) ==
    /\ ~DistLE(d_co, CO_BOND_MIN)
    /\ ~DistGE(d_co, CO_BOND_MAX)

\* line 91: CO_BOND_MIN <= d_co <= CO_BOND_MAX
CO_in_range(d_co) ==
    /\ DistGE(d_co, CO_BOND_MIN)
    /\ DistLE(d_co, CO_BOND_MAX)

\* lines 93-99: the pair is recorded when the carbon is near the metal, or
\* unconditionally when no metal index is given
NearMetal(coords, i, metal_index) ==
    IF metal_index # None
    THEN DistLE(distance(At(coords, i), At(coords, metal_index)), M_C_MAX)
    ELSE TRUE

RECURSIVE ScanO(_, _, _, _, _)
\* the inner loop (lines 87-99) for carbon i, from oxygen candidate j on
ScanO(elements, coords, metal_index, i, j) ==
    IF j >= Len(elements) THEN <<>>
    ELSE (IF /\ At(elements, j) = "O"
             /\ CO_in_range(distance(At(coords, i), At(coords, j)))
             /\ NearMetal(coords, i, metal_index)
          THEN << <<i, j>> >> ELSE <<>>)
         \o ScanO(elements, coords, metal_index, i, j + 1)

RECURSIVE ScanC(_, _, _, _)
\* the outer loop (lines 84-86), from carbon candidate i on
ScanC(elements, coords, metal_index, i) ==
    IF i >= Len(elements) THEN <<>>
    ELSE (IF At(elements, i) # "C" THEN <<>>
          ELSE ScanO(elements, coords, metal_index, i, 0))
         \o ScanC(elements, coords, metal_index, i + 1)

\* tuple(sorted((c_idx, o_idx)))
SortedKey(pair) == IF pair[1] <= pair[2] THEN pair ELSE <<pair[2], pair[1]>>

RECURSIVE UniquePairs(_, _)
\* the de-duplication loop (lines 102-108)
UniquePairs(co_pairs, seen) ==
    IF co_pairs = <<>> THEN <<>>
    ELSE LET key == SortedKey(Head(co_pairs))
         IN  IF key \in seen THEN UniquePairs(Tail(co_pairs), seen)
             ELSE <<Head(co_pairs)>> \o UniquePairs(Tail(co_pairs), seen \cup {key})

find_CO_pairs(elements, coords, metal_index) ==
    UniquePairs(ScanC(elements, coords, metal_index, 0), {})

\* the scan of lines 84-99 reaches a call of distance that raises: d_co for a
\* C and an O, or d_mc for a C that has an O in bond range
find_CO_pairs_raises(elements, coords, metal_index) ==
    \E i, j \in 0..(Len(elements) - 1) :
        /\ At(elements, i) = "C"
        /\ At(elements, j) = "O"
        /\ \/ distance_raises(At(coords, i), At(coords, j))
           \/ /\ CO_in_range(distance(At(coords, i), At(coords, j)))
              /\ metal_index # None
              /\ distance_raises(At(coords, i), At(coords, metal_index))

(* ----- process_xyz_file: the pure part ----- *)
\* line 131, with the threshold one too low
TooFewPairsOne(co_pairs) == Len(co_pairs) < 1

\* line 131
TooFewPairs(co_pairs) == Len(co_pairs) < 2

\* line 136
pairs_to_delete(co_pairs) == PySlice(co_pairs, 0, 2)

\* lines 139-142
delete_indices(co_pairs) ==
    UNION { {pair[1], pair[2]} : pair \in
              { pairs_to_delete(co_pairs)[k] : k \in 1..Len(pairs_to_delete(co_pairs)) } }

\* line 148, reading the 0-based index as 1-based
IsDeletedOffByOne(i, del) == (i + 1) \in del

\* line 148
IsDeleted(i, del) == i \in del

RECURSIVE KeepAtomsReversed(_, _, _)
\* lines 145-151, with the survivors prepended instead of appended
KeepAtomsReversed(seq, del, i) ==
    IF i >= Len(seq) THEN <<>>
    ELSE KeepAtomsReversed(seq, del, i + 1)
         \o (IF IsDeleted(i, del) THEN <<>> ELSE <<At(seq, i)>>)

RECURSIVE KeepAtoms(_, _, _)
\* lines 145-151: the atoms of seq from index i on that are not deleted
KeepAtoms(seq, del, i) ==
    IF i >= Len(seq) THEN <<>>
    ELSE (IF IsDeleted(i, del) THEN <<>> ELSE <<At(seq, i)>>)
         \o KeepAtoms(seq, del, i + 1)

(* ----- file names ----- *)
\* str.lower() on the extensions of the model
Lower(ext) == IF ext = ".XYZ" THEN ".xyz" ELSE ext

\* line 167: file_name.lower().endswith(".xyz")
IsXyz(file_name) == Lower(file_name.ext) = ".xyz"

\* lines 154-155: base + OUTPUT_SUFFIX + ext
new_path(path) == [path EXCEPT !.nd = @ + OUTPUT_SUFFIX]

(* ----- the per-file record kept for the properties: what the last call of *)
(* process_xyz_file read, computed and did                                   *)
NoCall ==
    [called |-> FALSE, path |-> [base |-> "", nd |-> 0, ext |-> ""], io |-> FALSE,
     rd |-> ReadFail, metal_index |-> None, co_pairs |-> <<>>, del |-> {},
     new_elements |-> <<>>, new_coords |-> <<>>, tag |-> "none", before |-> <<>>]

\* lines 23-25 and 113-114: open() fails on an unreadable path, else the parse
ReadOf(path) == IF path \in unreadable THEN ReadFail ELSE read_xyz(fs[path])

Called(path, rd, metal_index, co_pairs, tag) ==
    [called |-> TRUE, path |-> path, io |-> (path \in unreadable),
     rd |-> rd, metal_index |-> metal_index, co_pairs |-> co_pairs,
     del |-> IF tag \in {"done", "error"} THEN delete_indices(co_pairs) ELSE {},
     new_elements |-> IF tag \in {"done", "error"}
                      THEN KeepAtoms(rd.elements, delete_indices(co_pairs), 0) ELSE <<>>,
     new_coords |-> IF tag \in {"done", "error"}
                    THEN KeepAtoms(rd.coords, delete_indices(co_pairs), 0) ELSE <<>>,
     tag |-> tag, before |-> fs]

(* ----- main ----- *)
Permutations_of(S) ==
    { s \in [1..Cardinality(S) -> S] : \A i, j \in 1..Cardinality(S) : s[i] = s[j] => i = j }

\* line 166: os.listdir is evaluated once, in an order the platform chooses
MainListdir ==
    /\ pc = "start"
    /\ \E order \in Permutations_of(DOMAIN fs) : todo' = order
    /\ pc' = "loop"
    /\ UNCHANGED <<fs, fs0, unreadable, unwritable, log, last>>

Processing == pc = "loop" /\ todo # <<>> /\ IsXyz(Head(todo))

\* lines 167-168
MainSkipName ==
    /\ pc = "loop" /\ todo # <<>> /\ ~IsXyz(Head(todo))
    /\ todo' = Tail(todo)
    /\ UNCHANGED <<fs, fs0, unreadable, unwritable, pc, log, last>>

\* the loop of line 166 is exhausted
MainReturn ==
    /\ pc = "loop" /\ todo = <<>>
    /\ pc' = "done"
    /\ UNCHANGED <<fs, fs0, unreadable, unwritable, todo, log, last>>

(* ----- process_xyz_file, one action per way out ----- *)
\* lines 113-117
ProcReadFailed ==
    /\ Processing
    /\ LET path == Head(todo)
           rd == ReadOf(path)
       IN  /\ ~rd.ok
           /\ log' = Append(log, <<path, "skip">>)
           /\ last' = Called(path, rd, None, <<>>, "skip")
    /\ todo' = Tail(todo)
    /\ UNCHANGED <<fs, fs0, unreadable, unwritable, pc>>

\* lines 119-122
ProcNoAtoms ==
    /\ Processing
    /\ LET path == Head(todo)
           rd == ReadOf(path)
       IN  /\ rd.ok
           /\ Len(rd.elements) = 0
           /\ log' = Append(log, <<path, "skip">>)
           /\ last' = Called(path, rd, None, <<>>, "skip")
    /\ todo' = Tail(todo)
    /\ UNCHANGED <<fs, fs0, unreadable, unwritable, pc>>

\* lines 124-127
ProcNoMetal ==
    /\ Processing
    /\ LET path == Head(todo)
           rd == ReadOf(path)
       IN  /\ rd.ok
           /\ Len(rd.elements) # 0
           /\ find_metal_center(rd.elements) = None
           /\ log' = Append(log, <<path, "skip">>)
           /\ last' = Called(path, rd, None, <<>>, "skip")
    /\ todo' = Tail(todo)
    /\ UNCHANGED <<fs, fs0, unreadable, unwritable, pc>>

\* lines 129-133
ProcTooFew ==
    /\ Processing
    /\ LET path == Head(todo)
           rd == ReadOf(path)
           metal_index == find_metal_center(rd.elements)
           co_pairs == find_CO_pairs(rd.elements, rd.coords, metal_index)
       IN  /\ rd.ok
           /\ Len(rd.elements) # 0
           /\ metal_index # None
           /\ ~find_CO_pairs_raises(rd.elements, rd.coords, metal_index)
           /\ TooFewPairs(co_pairs)
           /\ log' = Append(log, <<path, "warn">>)
           /\ last' = Called(path, rd, metal_index, co_pairs, "warn")
    /\ todo' = Tail(todo)
    /\ UNCHANGED <<fs, fs0, unreadable, unwritable, pc>>

\* lines 135-163: the output is written and the completion reported
ProcWrite ==
    /\ Processing
    /\ LET path == Head(todo)
           rd == ReadOf(path)
           metal_index == find_metal_center(rd.elements)
           co_pairs == find_CO_pairs(rd.elements, rd.coords, metal_index)
           call == Called(path, rd, metal_index, co_pairs, "done")
       IN  /\ rd.ok
           /\ Len(rd.elements) # 0
           /\ metal_index # None
           /\ ~find_CO_pairs_raises(rd.elements, rd.coords, metal_index)
           /\ ~TooFewPairs(co_pairs)
           /\ new_path(path) \notin unwritable
           /\ fs' = (new_path(path) :>
                       write_xyz(call.new_elements, call.new_coords,
                                 rd.comment, rd.extra_lines)) @@ fs
           /\ log' = Append(log, <<path, "done">>)
           /\ last' = call
    /\ todo' = Tail(todo)
    /\ UNCHANGED <<fs0, unreadable, unwritable, pc>>

\* lines 135-157 when open(new_path, "w") raises: nothing catches the error,
\* neither in process_xyz_file nor in main, and the run ends with a traceback
ProcWriteRaises ==
    /\ Processing
    /\ LET path == Head(todo)
           rd == ReadOf(path)
           metal_index == find_metal_center(rd.elements)
           co_pairs == find_CO_pairs(rd.elements, rd.coords, metal_index)
       IN  /\ rd.ok
           /\ Len(rd.elements) # 0
           /\ metal_index # None
           /\ ~find_CO_pairs_raises(rd.elements, rd.coords, metal_index)
           /\ ~TooFewPairs(co_pairs)
           /\ new_path(path) \in unwritable
           /\ last' = [Called(path, rd, metal_index, co_pairs, "error") EXCEPT !.io = TRUE]
    /\ pc' = "aborted"
    /\ UNCHANGED <<fs, fs0, unreadable, unwritable, todo, log>>

\* line 129 when distance raises inside find_CO_pairs: nothing catches the
\* OverflowError either, and the run ends with a traceback
ProcDetectRaises ==
    /\ Processing
    /\ LET path == Head(todo)
           rd == ReadOf(path)
           metal_index == find_metal_center(rd.elements)
       IN  /\ rd.ok
           /\ Len(rd.elements) # 0
           /\ metal_index # None
           /\ find_CO_pairs_raises(rd.elements, rd.coords, metal_index)
           /\ last' = Called(path, rd, metal_index, <<>>, "overflow")
    /\ pc' = "aborted"
    /\ UNCHANGED <<fs, fs0, unreadable, unwritable, todo, log>>

Next ==
    \/ MainListdir
    \/ MainSkipName
    \/ MainReturn
    \/ ProcReadFailed
    \/ ProcNoAtoms
    \/ ProcNoMetal
    \/ ProcTooFew
    \/ ProcWrite
    \/ ProcWriteRaises
    \/ ProcDetectRaises

(* ----- the inputs: directories the program can be started on ----- *)
Pt(x, y, z) == <<(<<x, 0>>), (<<y, 0>>), (<<z, 0>>)>>

\* the same point with 4*10^-7 added to y: below what six decimals keep
PtFine(x, y, z) == <<(<<x, 0>>), (<<y, 4>>), (<<z, 0>>)>>

Atom(e, p) == [e |-> e, p |-> p]

A_Ir == Atom("Ir", Pt(0, 0, 0))
A_C1 == Atom("C", Pt(190, 0, 0))
A_O1 == Atom("O", Pt(305, 0, 0))
\* 1.30 from A_C1: on the upper C-O boundary
A_O1b == Atom("O", Pt(190, 130, 0))
\* 2.20 from the metal: on the M-C boundary
A_C2 == Atom("C", Pt(0, 220, 0))
\* 1.00 from A_C2: on the lower C-O boundary
A_O2 == Atom("O", Pt(0, 320, 0))
\* just beyond 1.30 from A_C1
A_O1far == Atom("O", PtFine(190, 130, 0))
\* just beyond 2.20 from the metal and just under 1.00 from A_O2
A_C2far == Atom("C", PtFine(0, 220, 0))
A_Co == Atom("Co", Pt(0, 0, 150))
A_H == Atom("H", Pt(100, 100, 0))

\* an oxygen so far away that the squared gap overflows
A_Ohuge == Atom("O", Pt(Huge, 0, 0))

CoreAtoms == {A_Ir, A_C1, A_O1, A_C2, A_O2}
AllAtoms == CoreAtoms \cup {A_O1b, A_O1far, A_C2far, A_Co, A_H, A_Ohuge}

SeqsUpTo(S, n) == UNION { [1..k -> S] : k \in 0..n }

\* a well-formed file holding the atoms
FileOf(atoms) ==
    <<IntLine(Len(atoms)), TextLine>>
      \o [i \in 1..Len(atoms) |-> AtomLine(atoms[i].e, atoms[i].p)]

LineKinds ==
    {IntLine(-3), IntLine(1), IntLine(2), BlankLine, TextLine, BadNumLine,
     AtomLine("Ir", Pt(0, 0, 0))}

Name(base, nd, ext) == [base |-> base, nd |-> nd, ext |-> ext]
N_a == Name("a", 0, ".xyz")
N_a_d == Name("a", 1, ".xyz")
N_B == Name("B", 0, ".XYZ")
N_txt == Name("notes", 0, ".txt")
NamePool == {N_a, N_a_d, N_B, N_txt}

F_two == FileOf(<<A_Ir, A_C1, A_O1, A_C2, A_O2>>)
F_one == FileOf(<<A_Ir, A_C1, A_O1>>)
F_short == <<IntLine(3), TextLine, AtomLine("Ir", Pt(0, 0, 0)), AtomLine("C", Pt(190, 0, 0))>>
F_fine == FileOf(<<A_Ir, A_C1, A_O1, A_O1b, A_O1far>>)
F_huge == FileOf(<<A_Ir, A_C1, A_Ohuge>>)
FilePool == {F_two, F_fine, F_one, F_short, F_huge}

AtMostOne(S) == {{}} \cup { {x} : x \in S }

StartWith(dir, ur, uw) ==
    /\ fs = dir
    /\ fs0 = dir
    /\ unreadable = ur
    /\ unwritable = uw
    /\ pc = "start"
    /\ todo = <<>>
    /\ log = <<>>
    /\ last = NoCall

\* one structure file holding any atoms of the pool
InitStructure ==
    \E atoms \in SeqsUpTo(CoreAtoms, MaxAtoms) \cup SeqsUpTo(AllAtoms, MaxAtoms - 2) :
        StartWith(N_a :> FileOf(atoms), {}, {})

\* one file holding any lines
InitLines ==
    \E lines \in SeqsUpTo(LineKinds, MaxLines) :
        StartWith(N_a :> lines, {}, {})

\* a folder of up to MaxFiles files, with at most one path that cannot be
\* opened: one of the files for reading, or one of the output paths for writing
InitFolder ==
    \E names \in SUBSET NamePool :
        /\ names # {}
        /\ Cardinality(names) <= MaxFiles
        /\ \E dir \in [names -> FilePool] :
           \E ur \in AtMostOne(names) :
           \E uw \in AtMostOne({ new_path(n) : n \in names }) :
               /\ ur = {} \/ uw = {}
               /\ StartWith(dir, ur, uw)

Init == InitStructure \/ InitLines \/ InitFolder

Spec == Init /\ [][Next]_vars

(***************************************************************************)
(* Properties                                                              *)
(***************************************************************************)
Indices(seq) == 0..(Len(seq) - 1)
HasMetal(elements) == \E i \in Indices(elements) : At(elements, i) \in CENTER_METALS
Wrote == last.called /\ last.tag = "done"
OutPath == new_path(last.path)
\* the atoms of a file as the reader sees them
AtomsIn(lines) == read_xyz(lines).elements

\* C1: whenever process_xyz_file writes an output (a metal was found and at
\* least two pairs were detected), the written structure has exactly four
\* atoms fewer than the parsed input.
C1_DeletionCountIsFour ==
    Wrote =>
        /\ Len(last.new_elements) = Len(last.rd.elements) - 4
        /\ fs[OutPath][1].n = Len(last.rd.elements) - 4

\* C2: whenever read_xyz returns a structure instead of failing, the number
\* of atoms it returns is the count declared on the first line.
C2_ReaderReturnsDeclaredCount ==
    (last.called /\ last.rd.ok) => Len(last.rd.elements) = last.rd.n_atoms

LogEntriesFor(file_name) == { k \in 1..Len(log) : log[k][1] = file_name }

\* C3: when the batch has ended, every enumerated structure file has received
\* exactly one outcome (skipped, warning or completed).
C3_EveryFileGetsOneOutcome ==
    pc \in {"done", "aborted"} =>
        \A file_name \in DOMAIN fs0 :
            IsXyz(file_name) =>
                /\ Cardinality(LogEntriesFor(file_name)) = 1
                /\ \A k \in LogEntriesFor(file_name) : log[k][2] \in {"skip", "warn", "done"}

\* C4: an I/O error met while reading or writing a file is reported as that
\* file's failure and the batch goes on: the run is not aborted.
C4_IOErrorIsNotFatal ==
    (last.called /\ last.io) =>
        /\ pc # "aborted"
        /\ log # <<>>
        /\ log[Len(log)] = <<last.path, "skip">>

\* C5: after main finishes, every file that existed before the run has the
\* content it had before the run.
C5_NoFileOverwritten ==
    pc = "done" => \A file_name \in DOMAIN fs0 : fs[file_name] = fs0[file_name]

\* the pipeline's outcome for a file, from its content alone
OutcomeOf(lines, is_unreadable) ==
    LET rd == read_xyz(lines)
        metal_index == find_metal_center(rd.elements)
    IN  IF is_unreadable \/ ~rd.ok \/ Len(rd.elements) = 0 \/ metal_index = None THEN "skip"
        ELSE IF find_CO_pairs_raises(rd.elements, rd.coords, metal_index) THEN "overflow"
        ELSE IF Len(find_CO_pairs(rd.elements, rd.coords, metal_index)) < 2 THEN "warn"
        ELSE "done"

OutputOf(lines) ==
    LET rd == read_xyz(lines)
        del == delete_indices(find_CO_pairs(rd.elements, rd.coords,
                                            find_metal_center(rd.elements)))
    IN  write_xyz(KeepAtoms(rd.elements, del, 0), KeepAtoms(rd.coords, del, 0),
                  rd.comment, rd.extra_lines)

\* C8: the outcome reported for a file, and the output written for it, are
\* those its content at the start of the batch determines, whatever the other
\* files and the enumeration order.
C8_OutcomeDependsOnOwnContent ==
    \A k \in 1..Len(log) :
        /\ log[k][2] = OutcomeOf(fs0[log[k][1]], log[k][1] \in unreadable)
        /\ log[k][2] = "done" => fs[new_path(log[k][1])] = OutputOf(fs0[log[k][1]])

\* the gate of process_xyz_file, from what the call read
GateOpen ==
    /\ last.rd.ok
    /\ HasMetal(last.rd.elements)
    /\ ~find_CO_pairs_raises(last.rd.elements, last.rd.coords,
                             find_metal_center(last.rd.elements))
    /\ Len(find_CO_pairs(last.rd.elements, last.rd.coords,
                         find_metal_center(last.rd.elements))) >= 2

\* C6 as stated: process_xyz_file writes an output file if and only if the
\* file parses, a metal is found and find_CO_pairs returns at least two pairs;
\* when the read fails, no metal is found or fewer than two pairs are
\* returned, it ends with a skip or a warning and changes no file.
C6_WritesIffGateOpen ==
    last.called =>
        /\ Wrote <=> GateOpen
        /\ (\/ ~last.rd.ok
            \/ ~HasMetal(last.rd.elements)
            \/ (last.tag \in {"warn", "done", "error"} /\ Len(last.co_pairs) < 2))
              => (last.tag \in {"skip", "warn"} /\ fs = last.before)

\* C6 amended: process_xyz_file reaches the write if and only if the file
\* parses, a metal is found and find_CO_pairs returns at least two pairs, and
\* the file is written exactly when, in addition, the output path can be
\* opened for writing.  When the read fails, no metal is found or fewer than
\* two pairs are returned, the call ends with a skip or a warning; whenever
\* nothing is written the filesystem is unchanged, and a write changes the
\* output path alone.
C6_WriteGated ==
    last.called =>
        /\ last.tag \in {"done", "error"} <=> GateOpen
        /\ Wrote <=> (GateOpen /\ OutPath \notin unwritable)
        /\ (~last.rd.ok \/ ~HasMetal(last.rd.elements)) => last.tag = "skip"
        /\ (last.tag = "warn") <=>
              (/\ last.rd.ok /\ HasMetal(last.rd.elements)
               /\ last.tag # "overflow"
               /\ Len(last.co_pairs) < 2)
        /\ ~Wrote => fs = last.before
        /\ Wrote =>
              /\ OutPath \in DOMAIN fs
              /\ \A file_name \in DOMAIN last.before :
                    file_name # OutPath => fs[file_name] = last.before[file_name]
              /\ DOMAIN fs = DOMAIN last.before \cup {OutPath}

\* a call wrote a file that did not exist before
C6_Witness ==
    /\ Wrote
    /\ Len(last.co_pairs) >= 2
    /\ OutPath \in DOMAIN fs
    /\ OutPath \notin DOMAIN last.before

\* the indices of the first two detected pairs
FirstTwoIndices ==
    { last.co_pairs[k][1] : k \in 1..2 } \cup { last.co_pairs[k][2] : k \in 1..2 }

Survivors == Indices(last.rd.elements) \ FirstTwoIndices
\* position (1-based) a survivor takes in the output
RankOf(i) == Cardinality({ j \in Survivors : j < i }) + 1

\* C7: the sequence process_xyz_file writes is the input sequence without the
\* atoms at the indices of the first two detected pairs: every other atom is
\* there with its element and coordinates, nothing else is dropped, and the
\* order is the input's.  The file then holds those atoms in that order.
C7_OrderPreserved ==
    Wrote =>
        /\ Len(last.new_elements) = Cardinality(Survivors)
        /\ Len(last.new_coords) = Cardinality(Survivors)
        /\ \A i \in Survivors :
              /\ last.new_elements[RankOf(i)] = At(last.rd.elements, i)
              /\ last.new_coords[RankOf(i)] = At(last.rd.coords, i)
        /\ AtomsIn(fs[OutPath]) = last.new_elements

\* an output with survivors on both sides of a removed atom
C7_Witness ==
    /\ Wrote
    /\ \E i, j, k \in Indices(last.rd.elements) :
          /\ i < j /\ j < k
          /\ i \in Survivors /\ k \in Survivors /\ j \in FirstTwoIndices
          /\ At(last.rd.elements, i) # At(last.rd.elements, k)

DetectorRan == last.called /\ last.tag \in {"warn", "done", "error"}

\* the pairs the detector has to report
ExpectedPairs ==
    { pair \in Indices(last.rd.elements) \X Indices(last.rd.elements) :
        /\ At(last.rd.elements, pair[1]) = "C"
        /\ At(last.rd.elements, pair[2]) = "O"
        /\ DistGE(distance(At(last.rd.coords, pair[1]), At(last.rd.coords, pair[2])),
                  CO_BOND_MIN)
        /\ DistLE(distance(At(last.rd.coords, pair[1]), At(last.rd.coords, pair[2])),
                  CO_BOND_MAX)
        /\ DistLE(distance(At(last.rd.coords, pair[1]),
                           At(last.rd.coords, last.metal_index)),
                  M_C_MAX) }

ScanBefore(p, q) == p[1] < q[1] \/ (p[1] = q[1] /\ p[2] < q[2])

FirstMetal(elements) ==
    CHOOSE i \in Indices(elements) :
        /\ At(elements, i) \in CENTER_METALS
        /\ \A j \in Indices(elements) : At(elements, j) \in CENTER_METALS => i <= j

\* C10: in every output written, each removed atom is a "C" or an "O", the
\* index find_metal_center returned is that of the first whitelisted atom
\* and is not removed, and the first whitelisted atom of the output is that
\* same atom.
C10_MetalKept ==
    Wrote =>
        /\ \A i \in last.del : At(last.rd.elements, i) \in {"C", "O"}
        /\ last.metal_index = FirstMetal(last.rd.elements)
        /\ last.metal_index \notin last.del
        /\ Len(last.new_elements) =
              Len(last.rd.elements) - Cardinality(last.del)
        /\ HasMetal(last.new_elements)
        /\ FirstMetal(last.new_elements) =
              last.metal_index - Cardinality({ d \in last.del : d < last.metal_index })
        /\ At(last.new_elements, FirstMetal(last.new_elements))
              = At(last.rd.elements, last.metal_index)
        /\ At(last.new_coords, FirstMetal(last.new_elements))
              = At(last.rd.coords, last.metal_index)

\* an output whose metal stood behind a removed atom in the input
C10_Witness ==
    /\ Wrote
    /\ \E d \in last.del : d < last.metal_index

====
